---- MODULE Spec2Model ----
(***************************************************************************)
(* naudit (src/src/main.rs): npm multi package audit.                      *)
(*                                                                         *)
(* Strings are sequences of one-character strings, so that contains,       *)
(* replace, lines, trim, format! and Path::join are computed the way the    *)
(* standard library computes them.  A path is resolved against the file    *)
(* system component by component, ".." included.                           *)
(***************************************************************************)
EXTENDS Integers, Sequences, FiniteSets, TLC

VARIABLES
    pc,           \* position of the run / of the operation under study
    fs,           \* file system: [dirs, files], sets of absolute component paths
    preFs,        \* the file system before the run (before the call)
    cfg,          \* RunConfig and the root manifest's "__version__" field
    dirs,         \* list_package_dirs' result held by main
    idx,          \* index of the for loop in progress
    report,       \* audit_content: [sections: the sections pushed, footer: the note pushed]
    tar,          \* bytes of <name>-AUDIT.tar: [entries, eof]
    gz,           \* what <name>-AUDIT.tar.gz decompresses to
    removed,      \* history: directory trees removed, with the phase that removed them
    spawned,      \* history: subprocesses started, in order
    pending,      \* list_audit_files' result, being appended to the archive
    outcome,      \* "running", "no_manifest", "finished", or the panic that ended the run
    call,         \* SafeDeleter under study: [kind, path, res]
    text          \* sanitization under study: [raw, vec, out, again]

vars == <<pc, fs, preFs, cfg, dirs, idx, report, tar, gz, removed, spawned, pending,
          outcome, call, text>>

runVars == <<cfg, dirs, idx, report, tar, gz, removed, spawned, pending, outcome>>

(***************************************************************************)
(* String constants of the program                                         *)
(***************************************************************************)
NODE_MODULES == <<"n", "o", "d", "e", "_", "m", "o", "d", "u", "l", "e", "s">>
AUDIT_ROOT_DIR_NAME == <<".", "a", "u", "d", "i", "t">>
PACKAGE_LOCK == <<"p", "a", "c", "k", "a", "g", "e", "-", "l", "o", "c", "k">>
PACKAGE_JSON == <<"p", "a", "c", "k", "a", "g", "e", ".", "j", "s", "o", "n">>
PACKAGE_LOCK_JSON ==
    <<"p", "a", "c", "k", "a", "g", "e", "-", "l", "o", "c", "k", ".", "j", "s", "o", "n">>
DOT_GIT == <<".", "g", "i", "t">>
ROOT_LABEL == <<"_", "r", "o", "o", "t", "_">>
AUDIT_SUFFIX == <<"-", "A", "U", "D", "I", "T">>
AUDIT_TXT == <<"_", "a", "u", "d", "i", "t", ".", "t", "x", "t">>
TAR_EXT == <<".", "t", "a", "r">>
GZ_EXT == <<".", "g", "z">>
LOCK_SUFFIX ==
    <<"-", "p", "a", "c", "k", "a", "g", "e", "-", "l", "o", "c", "k", ".", "j", "s", "o", "n">>
DROP_UNKNOWN == <<"D", "R", "O", "P", "-", "U", "N", "K", "N", "O", "W", "N">>
ESC90 == <<"[", "9", "0", "m">>
ESC39 == <<"[", "3", "9", "m">>
SLASH == "/"
DOTDOT == <<".", ".">>
DOT == <<".">>

(***************************************************************************)
(* str and Path                                                            *)
(***************************************************************************)
\* str::contains
Contains(s, pat) ==
    \E i \in 0..(Len(s) - Len(pat)) : SubSeq(s, i + 1, i + Len(pat)) = pat

\* Path::components: split at "/", empty and "." components dropped, ".." kept
RECURSIVE SplitSlash(_, _)
SplitSlash(s, cur) ==
    IF s = <<>> THEN <<cur>>
    ELSE IF Head(s) = SLASH THEN <<cur>> \o SplitSlash(Tail(s), <<>>)
    ELSE SplitSlash(Tail(s), Append(cur, Head(s)))

Components(s) ==
    SelectSeq(SplitSlash(s, <<>>), LAMBDA c : c # <<>> /\ c # DOT)

\* PathBuf::join: an absolute argument replaces the base
JoinPath(base, rel) ==
    IF rel # <<>> /\ Head(rel) = SLASH THEN rel
    ELSE IF base # <<>> /\ base[Len(base)] = SLASH THEN base \o rel
    ELSE base \o <<SLASH>> \o rel

\* the string form of an absolute component path
RECURSIVE PathStr(_)
PathStr(p) ==
    IF p = <<>> THEN <<>> ELSE <<SLASH>> \o Head(p) \o PathStr(Tail(p))

\* the string form of a relative component path (Path::strip_prefix(..).to_str())
RelStr(p) == IF p = <<>> THEN <<>> ELSE Tail(PathStr(p))

Front(p) == SubSeq(p, 1, Len(p) - 1)

IsPrefix(p, q) == Len(p) <= Len(q) /\ SubSeq(q, 1, Len(p)) = p

(***************************************************************************)
(* The file system: path resolution as the operating system does it        *)
(***************************************************************************)
\* Follow the components from "/": every directory named on the way must exist.
RECURSIVE Walk(_, _, _)
Walk(d, cur, rest) ==
    IF rest = <<>> THEN [ok |-> TRUE, path |-> cur]
    ELSE LET c == Head(rest)
             nxt == IF c = DOTDOT
                    THEN (IF cur = <<>> THEN <<>> ELSE Front(cur))
                    ELSE Append(cur, c)
         IN  IF nxt \in d THEN Walk(d, nxt, Tail(rest))
             ELSE [ok |-> FALSE, path |-> <<>>]

\* Path::is_dir
is_dir(f, path_str) == Walk(f.dirs, <<>>, Components(path_str)).ok

ResolveDir(f, path_str) == Walk(f.dirs, <<>>, Components(path_str)).path

\* the parent directory resolves and holds a file of that name
ResolveFile(f, path_str) ==
    LET cs == Components(path_str)
        par == IF cs = <<>> THEN [ok |-> FALSE, path |-> <<>>]
               ELSE Walk(f.dirs, <<>>, Front(cs))
    IN  IF par.ok /\ cs[Len(cs)] # DOTDOT
        THEN [ok |-> Append(par.path, cs[Len(cs)]) \in f.files,
              parent |-> TRUE,
              path |-> Append(par.path, cs[Len(cs)])]
        ELSE [ok |-> FALSE, parent |-> FALSE, path |-> <<>>]

\* Path::is_file
is_file(f, path_str) == ResolveFile(f, path_str).ok

\* fs::remove_dir_all on a directory that resolves to p
remove_dir_all(f, p) ==
    [dirs |-> {x \in f.dirs : ~IsPrefix(p, x)},
     files |-> {x \in f.files : ~IsPrefix(p, x)}]

\* fs::remove_file
remove_file(f, p) == [f EXCEPT !.files = @ \ {p}]

\* fs::create_dir_all: every missing directory on the way is created
RECURSIVE MkdirWalk(_, _, _)
MkdirWalk(d, cur, rest) ==
    IF rest = <<>> THEN d
    ELSE LET c == Head(rest)
             nxt == IF c = DOTDOT
                    THEN (IF cur = <<>> THEN <<>> ELSE Front(cur))
                    ELSE Append(cur, c)
         IN  MkdirWalk(d \cup {nxt}, nxt, Tail(rest))

create_dir_all(f, path_str) ==
    [f EXCEPT !.dirs = MkdirWalk(@, <<>>, Components(path_str))]

(***************************************************************************)
(* SafeDeleter: safer_remove_dir, safer_remove_file                        *)
(***************************************************************************)
DirGuardNoDot(path_str) ==
    Contains(path_str, NODE_MODULES) \/ Contains(path_str, Tail(AUDIT_ROOT_DIR_NAME))

\* the safety guard of safer_remove_dir
DirGuard(path_str) ==
    Contains(path_str, NODE_MODULES) \/ Contains(path_str, AUDIT_ROOT_DIR_NAME)

\* the safety guard of safer_remove_file
FileGuard(path_str) == Contains(path_str, PACKAGE_LOCK)

safer_remove_dir(f, path_str) ==
    IF ~DirGuard(path_str)
    THEN [res |-> "PathNotSafeToDelete", fs |-> f, gone |-> {}]
    ELSE IF is_dir(f, path_str)
    THEN [res |-> "Ok_true",
          fs |-> remove_dir_all(f, ResolveDir(f, path_str)),
          gone |-> {ResolveDir(f, path_str)}]
    ELSE [res |-> "Ok_false", fs |-> f, gone |-> {}]

safer_remove_file(f, path_str) ==
    IF ~FileGuard(path_str)
    THEN [res |-> "PathNotSafeToDelete", fs |-> f]
    ELSE IF is_file(f, path_str)
    THEN [res |-> "Ok_true", fs |-> remove_file(f, ResolveFile(f, path_str).path)]
    ELSE [res |-> "Ok_false", fs |-> f]

(***************************************************************************)
(* Values of the variables an operation under study does not use           *)
(***************************************************************************)
R == <<"r">>
A == <<"a">>
ROOT == <<R>>

NoCfg == [doClean |-> FALSE, doInstall |-> FALSE, doAudit |-> FALSE,
          manifest |-> [kind |-> "none", version |-> <<>>]]
NoTar == [created |-> FALSE, entries |-> <<>>, eof |-> FALSE]
NoGz == [created |-> FALSE, entries |-> <<>>, eof |-> FALSE]
NoReport == [sections |-> <<>>, footer |-> FALSE]
NoCall == [kind |-> "none", path |-> <<>>, res |-> "none"]
NoText == [raw |-> <<>>, vec |-> <<>>, out |-> <<>>, again |-> <<>>]
EmptyFs == [dirs |-> {<<>>, ROOT}, files |-> {}]

RunIdle ==
    /\ cfg = NoCfg /\ dirs = <<>> /\ idx = 0 /\ report = NoReport
    /\ tar = NoTar /\ gz = NoGz /\ removed = {} /\ spawned = <<>>
    /\ pending = <<>> /\ outcome = "idle"

(***************************************************************************)
(* SpecSafe: safer_remove_dir and safer_remove_file called on any path     *)
(***************************************************************************)
SafeOptDirs ==
    {<<R, NODE_MODULES>>, <<R, AUDIT_ROOT_DIR_NAME>>, <<R, Tail(AUDIT_ROOT_DIR_NAME)>>,
     <<R, A>>}
SafeOptFiles ==
    {<<R, PACKAGE_LOCK_JSON>>, <<R, PACKAGE_JSON>>, <<R, A, PACKAGE_JSON>>}

SafeFsUniverse ==
    {[dirs |-> {<<>>, ROOT} \cup D, files |-> F] :
        D \in SUBSET SafeOptDirs,
        F \in SUBSET SafeOptFiles} 

WellFormedFs(f) == \A x \in f.files \cup (f.dirs \ {<<>>}) : Front(x) \in f.dirs

SafeCallPaths ==
    {PathStr(<<R, NODE_MODULES>>),
     PathStr(<<R, AUDIT_ROOT_DIR_NAME>>),
     PathStr(<<R, Tail(AUDIT_ROOT_DIR_NAME)>>),
     PathStr(<<R, A>>),
     PathStr(<<R, AUDIT_ROOT_DIR_NAME, DOTDOT, A>>),
     PathStr(<<R, PACKAGE_LOCK_JSON>>),
     PathStr(<<R, PACKAGE_JSON>>),
     PathStr(<<R, A, PACKAGE_JSON>>),
     PathStr(<<R, <<"m">> >>)}

SafeInit ==
    /\ pc = "safe"
    /\ fs \in {f \in SafeFsUniverse : WellFormedFs(f)}
    /\ preFs = fs
    /\ call = NoCall
    /\ text = NoText
    /\ RunIdle

CallRemoveDir(p) ==
    /\ pc = "safe"
    /\ LET r == safer_remove_dir(fs, p)
       IN  /\ fs' = r.fs
           /\ call' = [kind |-> "dir", path |-> p, res |-> r.res]
    /\ preFs' = fs
    /\ UNCHANGED <<pc, text, runVars>>

CallRemoveFile(p) ==
    /\ pc = "safe"
    /\ LET r == safer_remove_file(fs, p)
       IN  /\ fs' = r.fs
           /\ call' = [kind |-> "file", path |-> p, res |-> r.res]
    /\ preFs' = fs
    /\ UNCHANGED <<pc, text, runVars>>

SafeNext ==
    \/ \E p \in SafeCallPaths : CallRemoveDir(p)
    \/ \E p \in SafeCallPaths : CallRemoveFile(p)

SpecSafe == SafeInit /\ [][SafeNext]_vars

\* C1: safer_remove_dir on a path whose string contains neither "node_modules"
\* nor ".audit", and safer_remove_file on a path whose string does not contain
\* "package-lock", return PathNotSafeToDelete and leave the file system as it
\* was, whether or not the path exists.
C1_UnsafePathRejected ==
    /\ (/\ call.kind = "dir"
        /\ ~Contains(call.path, NODE_MODULES)
        /\ ~Contains(call.path, AUDIT_ROOT_DIR_NAME))
            => (call.res = "PathNotSafeToDelete" /\ fs = preFs)
    /\ (call.kind = "file" /\ ~Contains(call.path, PACKAGE_LOCK))
            => (call.res = "PathNotSafeToDelete" /\ fs = preFs)

\* C1 witness: an existing directory named "audit" (no marker) was asked to be
\* removed, was rejected, and is still there.
C1_Witness ==
    /\ call.kind = "dir"
    /\ call.path = PathStr(<<R, Tail(AUDIT_ROOT_DIR_NAME)>>)
    /\ call.res = "PathNotSafeToDelete"
    /\ <<R, Tail(AUDIT_ROOT_DIR_NAME)>> \in fs.dirs

(***************************************************************************)
(* cmd_audit: the clean-up of the audit output                             *)
(***************************************************************************)
NL == "\n"
Alphanumeric == {"9", "0", "3", "m"}
Whitespace == {" ", NL}
\* the characters a captured output is made of here: "[" stands for every
\* character that is neither alphanumeric nor white space (the escape
\* character included), " " for every white space other than the line feed
\* (a carriage return before a line feed is dropped by lines(), elsewhere by
\* trim() or kept inside the line, as a space is)
Alphabet == {"[", "9", "0", "3", "m", " ", NL}

MaxLen == 5

RECURSIVE Texts(_)
Texts(n) ==
    IF n = 0 THEN {<<>>}
    ELSE Texts(n - 1) \cup {Append(t, c) : t \in {u \in Texts(n - 1) : Len(u) = n - 1},
                                           c \in Alphabet}

\* str::replace(pat, ""): the matches, left to right, not overlapping
RECURSIVE Remove(_, _)
Remove(s, pat) ==
    IF Len(s) < Len(pat) THEN s
    ELSE IF SubSeq(s, 1, Len(pat)) = pat
    THEN Remove(SubSeq(s, Len(pat) + 1, Len(s)), pat)
    ELSE <<Head(s)>> \o Remove(Tail(s), pat)

RECURSIVE SplitNL(_, _)
SplitNL(s, cur) ==
    IF s = <<>> THEN <<cur>>
    ELSE IF Head(s) = NL THEN <<cur>> \o SplitNL(Tail(s), <<>>)
    ELSE SplitNL(Tail(s), Append(cur, Head(s)))

\* str::lines: a final line ending does not open another line
Lines(s) ==
    LET pieces == SplitNL(s, <<>>)
    IN  IF pieces[Len(pieces)] = <<>> THEN Front(pieces) ELSE pieces

RECURSIVE TrimStart(_)
TrimStart(s) ==
    IF s # <<>> /\ Head(s) \in Whitespace THEN TrimStart(Tail(s)) ELSE s

RECURSIVE TrimEnd(_)
TrimEnd(s) ==
    IF s # <<>> /\ s[Len(s)] \in Whitespace THEN TrimEnd(Front(s)) ELSE s

\* str::trim
Trim(s) == TrimEnd(TrimStart(s))

KeepAlnumWs(s) == SelectSeq(s, LAMBDA c : c \in Alphanumeric \/ c \in Whitespace)

CleanLineTrimFirst(s) == KeepAlnumWs(Trim(s))

\* the closure mapped over the lines
CleanLine(s) == Trim(KeepAlnumWs(s))

CleanLinesDropEmpty(ls) ==
    SelectSeq([i \in 1..Len(ls) |-> CleanLine(ls[i])], LAMBDA l : l # <<>>)

\* .lines().map(..).collect::<Vec<String>>()
CleanLines(ls) == [i \in 1..Len(ls) |-> CleanLine(ls[i])]

\* [String]::join("\n")
RECURSIVE JoinNL(_)
JoinNL(ls) ==
    IF ls = <<>> THEN <<>>
    ELSE IF Len(ls) = 1 THEN ls[1]
    ELSE ls[1] \o <<NL>> \o JoinNL(Tail(ls))

RemoveFragments(s) == Remove(Remove(s, ESC90), ESC39)

SanitizeVec(s) == CleanLines(Lines(RemoveFragments(s)))

Sanitize(s) == JoinNL(SanitizeVec(s))

(***************************************************************************)
(* SpecSanitize: the clean-up applied to a text, then to its own result    *)
(***************************************************************************)
SanInit ==
    /\ pc = "san_raw"
    /\ text \in {[raw |-> t, vec |-> <<>>, out |-> <<>>, again |-> <<>>] : t \in Texts(MaxLen)}
    /\ fs = EmptyFs
    /\ preFs = EmptyFs
    /\ call = NoCall
    /\ RunIdle

SanitizeOnce ==
    /\ pc = "san_raw"
    /\ pc' = "san_once"
    /\ text' = [text EXCEPT !.vec = SanitizeVec(text.raw), !.out = Sanitize(text.raw)]
    /\ UNCHANGED <<fs, preFs, call, runVars>>

SanitizeAgain ==
    /\ pc = "san_once"
    /\ pc' = "san_twice"
    /\ text' = [text EXCEPT !.again = Sanitize(text.out)]
    /\ UNCHANGED <<fs, preFs, call, runVars>>

SanNext == SanitizeOnce \/ SanitizeAgain

SpecSanitize == SanInit /\ [][SanNext]_vars

EndsWithNL(s) == s # <<>> /\ s[Len(s)] = NL

\* C6 as stated: sanitize(sanitize(t)) = sanitize(t) for every text t.
C6_Idempotent == pc = "san_twice" => text.again = text.out

\* C6 amended: a second pass changes nothing unless the first result ends with
\* an empty line (the last of two or more lines kept no alphanumeric
\* character); then the second pass removes that final line ending and nothing
\* else.
C6_IdempotentUpToFinalNewline ==
    pc = "san_twice" =>
        text.again = IF EndsWithNL(text.out) THEN Front(text.out) ELSE text.out

\* C6 witness: a text that ends with a punctuation-only line after a line that
\* stays, sanitized twice.
C6_Witness ==
    /\ pc = "san_twice"
    /\ text.raw = <<"9", NL, "[">>
    /\ text.out = <<"9", NL>>
    /\ text.again = <<"9">>

NonEmptyCount(ls) == Cardinality({i \in 1..Len(ls) : ls[i] # <<>>})

RECURSIVE IsSubseq(_, _)
IsSubseq(a, b) ==
    IF a = <<>> THEN TRUE
    ELSE IF b = <<>> THEN FALSE
    ELSE IF Head(a) = Head(b) THEN IsSubseq(Tail(a), Tail(b))
    ELSE IsSubseq(a, Tail(b))

InOrder(out, in) ==
    /\ Len(out) = Len(in)
    /\ \A i \in 1..Len(out) : IsSubseq(out[i], in[i])

\* C7 as stated: the lines keep their order and the output has as many
\* non-empty lines as the input.
C7_NonEmptyLinesPreserved ==
    pc = "san_once" =>
        /\ InOrder(text.vec, Lines(text.raw))
        /\ NonEmptyCount(text.vec) = NonEmptyCount(Lines(text.raw))

\* C7 amended: the output lines are, in order, the lines of the text left once
\* the colour fragments are removed: one per input line, except that a final
\* line that has no line ending and is made only of fragments opens no line.
\* Each output line is made of characters of its input line that are
\* alphanumeric or white space, with no white space at either end, and is
\* empty exactly when nothing alphanumeric is left of its input line; so the
\* number of non-empty lines never grows and may shrink.
C7_LinesKeptInOrder ==
    pc = "san_once" =>
        LET in == Lines(text.raw)
            n == Len(text.vec)
        IN  /\ n <= Len(in) /\ Len(in) <= n + 1
            /\ n < Len(in) <=>
                   /\ in # <<>>
                   /\ ~EndsWithNL(text.raw)
                   /\ RemoveFragments(in[Len(in)]) = <<>>
            /\ text.out = JoinNL(text.vec)
            /\ \A i \in 1..n :
                 /\ IsSubseq(text.vec[i], in[i])
                 /\ \A j \in 1..Len(text.vec[i]) :
                        text.vec[i][j] \in Alphanumeric \cup {" "}
                 /\ text.vec[i] # <<>> =>
                        /\ text.vec[i][1] \in Alphanumeric
                        /\ text.vec[i][Len(text.vec[i])] \in Alphanumeric
                 /\ text.vec[i] = <<>> <=>
                        \A j \in 1..Len(RemoveFragments(in[i])) :
                            RemoveFragments(in[i])[j] \notin Alphanumeric
            /\ NonEmptyCount(text.vec) <= NonEmptyCount(in)

\* C7 witness: a punctuation-only line between two lines that stay is emitted
\* as an empty line.
C7_Witness ==
    /\ pc = "san_once"
    /\ text.raw = <<"9", NL, "[", NL, "m">>
    /\ text.vec = <<<<"9">>, <<>>, <<"m">>>>

(***************************************************************************)
(* PackageDiscovery: list_package_dirs                                     *)
(***************************************************************************)
\* the path of x relative to the directory root (Path::strip_prefix)
Rel(root, x) == SubSeq(x, Len(root) + 1, Len(x))

\* "**/*/package.json": an entry named package.json, one directory down or more
MatchManifest(rel) == Len(rel) >= 2 /\ rel[Len(rel)] = PACKAGE_JSON

\* "!**/node_modules/*": an entry directly inside a node_modules, at any depth
MatchNodeModules(rel) == Len(rel) >= 2 /\ rel[Len(rel) - 1] = NODE_MODULES

MatchGitAnyDepth(rel) == Len(rel) >= 2 /\ rel[Len(rel) - 1] = DOT_GIT

\* "!.git/*": a glob with a slash matches the whole relative path, so this is
\* an entry directly inside the .git of the root
MatchGit(rel) == Len(rel) = 2 /\ rel[1] = DOT_GIT

\* Override::matched: the last glob that matches decides; a file that no glob
\* matches is ignored because there is a whitelist glob
Matched(rel, isDir) ==
    IF MatchGit(rel) THEN "Ignore"
    ELSE IF MatchNodeModules(rel) THEN "Ignore"
    ELSE IF MatchManifest(rel) THEN "Whitelist"
    ELSE IF isDir THEN "None"
    ELSE "Ignore"

\* GlobWalker::next: the walk does not enter a directory that is ignored
Visited(f, root, x) ==
    \A n \in (Len(root) + 1)..(Len(x) - 1) :
        Matched(Rel(root, SubSeq(x, 1, n)), TRUE) # "Ignore"

\* the entries the walker yields
Yielded(f, root) ==
    {x \in f.dirs \cup f.files :
        /\ IsPrefix(root, x) /\ x # root
        /\ Visited(f, root, x)
        /\ Matched(Rel(root, x), x \in f.dirs) = "Whitelist"}

RECURSIVE Perms(_)
Perms(S) ==
    IF S = {} THEN {<<>>}
    ELSE UNION {{<<x>> \o q : q \in Perms(S \ {x})} : x \in S}

\* The vectors list_package_dirs may return: the walk's order is the
\* directory order of the file system, which the program does not choose.
list_package_dirs(f, root_str) ==
    LET root == ResolveDir(f, root_str)
        found == {[dir |-> Front(x), name |-> RelStr(Rel(root, Front(x)))] :
                     x \in Yielded(f, root)}
    IN  {<<[dir |-> root, name |-> ROOT_LABEL]>> \o v : v \in Perms(found)}

(***************************************************************************)
(* SpecDiscover: list_package_dirs on a directory tree                     *)
(***************************************************************************)
B == <<"b">>
C == <<"c">>
H == <<"h">>
X == <<"x">>
Y == <<"y">>

\* directories that may hold a manifest file
DiscCandidates ==
    {<<R, A>>,
     <<R, A, B>>,
     <<R, NODE_MODULES, X>>,
     <<R, A, NODE_MODULES>>,
     <<R, A, NODE_MODULES, X, Y>>,
     <<R, DOT_GIT, H>>,
     <<R, A, DOT_GIT, H>>}

\* a directory that may hold a directory named package.json
DiscDirNamedManifest == <<R, C, PACKAGE_JSON>>

Prefixes(S) == UNION {{SubSeq(x, 1, n) : n \in 0..Len(x)} : x \in S}

DiscFs(S, withDir) ==
    [dirs |-> Prefixes(S \cup (IF withDir THEN {DiscDirNamedManifest} ELSE {}))
              \cup {<<>>, ROOT},
     files |-> {Append(d, PACKAGE_JSON) : d \in S} \cup {<<R, PACKAGE_JSON>>}]

DiscInit ==
    /\ pc = "disc"
    /\ fs \in {DiscFs(S, w) : S \in SUBSET DiscCandidates, w \in BOOLEAN}
    /\ preFs = fs
    /\ call = NoCall
    /\ text = NoText
    /\ RunIdle

Discover ==
    /\ pc = "disc"
    /\ pc' = "disc_done"
    /\ dirs' \in list_package_dirs(fs, PathStr(ROOT))
    /\ UNCHANGED <<fs, preFs, call, text, cfg, idx, report, tar, gz, removed, spawned,
                   pending, outcome>>

DiscNext == Discover

SpecDiscover == DiscInit /\ [][DiscNext]_vars

\* the shape both readings of C8 share: k+1 entries, the root first with the
\* label "_root_", then the k directories of the set E, each once, each label
\* joined to the root giving back its directory
DiscoveryIs(E) ==
    /\ Len(dirs) = Cardinality(E) + 1
    /\ dirs[1] = [dir |-> ROOT, name |-> ROOT_LABEL]
    /\ \A i \in 2..Len(dirs) :
        /\ dirs[i].dir \in E
        /\ Components(JoinPath(PathStr(ROOT), dirs[i].name)) = dirs[i].dir
        /\ \A j \in 2..Len(dirs) : dirs[j].dir = dirs[i].dir => j = i

SubDirs(f) == {d \in f.dirs : IsPrefix(ROOT, d) /\ d # ROOT}

\* C8 as stated, read in the way most favourable to it: E is the
\* subdirectories that contain a manifest (any entry named package.json) and
\* are not beneath a node_modules or a .git directory at any depth (a
\* directory named node_modules or .git counted as beneath itself).
C8_DiscoveryAnyDepth ==
    pc = "disc_done" =>
        DiscoveryIs({d \in SubDirs(fs) :
            /\ Append(d, PACKAGE_JSON) \in fs.files \cup fs.dirs
            /\ \A i \in 1..Len(Rel(ROOT, d)) :
                   Rel(ROOT, d)[i] \notin {NODE_MODULES, DOT_GIT}})

\* C8 amended: E is the subdirectories that contain an entry named
\* package.json (a file or a directory) and are neither a node_modules
\* directory or beneath one, at any depth, nor the .git directory of the root
\* or beneath it; a .git directory further down excludes nothing.
C8_DiscoveryRootGitOnly ==
    pc = "disc_done" =>
        DiscoveryIs({d \in SubDirs(fs) :
            /\ Append(d, PACKAGE_JSON) \in fs.files \cup fs.dirs
            /\ \A i \in 1..Len(Rel(ROOT, d)) : Rel(ROOT, d)[i] # NODE_MODULES
            /\ Rel(ROOT, d)[1] # DOT_GIT})

\* C8 witness: a tree with manifests in a, a/b, under node_modules, under the
\* root's .git and under a/.git, for which three sub-packages are listed.
C8_Witness ==
    /\ pc = "disc_done"
    /\ {<<R, A, PACKAGE_JSON>>, <<R, A, B, PACKAGE_JSON>>,
        <<R, NODE_MODULES, X, PACKAGE_JSON>>, <<R, DOT_GIT, H, PACKAGE_JSON>>,
        <<R, A, DOT_GIT, H, PACKAGE_JSON>>} \subseteq fs.files
    /\ Len(dirs) = 4
    /\ {dirs[i].dir : i \in 2..4} = {<<R, A>>, <<R, A, B>>, <<R, A, DOT_GIT, H>>}

(***************************************************************************)
(* main: the paths it computes                                             *)
(***************************************************************************)
\* the PATH argument, here an absolute path
root_str == PathStr(ROOT)

\* get_drop_name: the "__version__" string of the manifest, or the sentinel
get_drop_name(manifest) ==
    IF manifest.kind = "string" THEN manifest.version ELSE DROP_UNKNOWN

drop_name == get_drop_name(cfg.manifest)
audit_root_dir == JoinPath(root_str, AUDIT_ROOT_DIR_NAME)
audit_name == drop_name \o AUDIT_SUFFIX
audit_dir == JoinPath(audit_root_dir, audit_name)
audit_file == JoinPath(audit_dir, AUDIT_TXT)
tar_name == audit_name \o TAR_EXT
tar_path == JoinPath(audit_root_dir, tar_name)
gz_path == JoinPath(audit_root_dir, tar_name \o GZ_EXT)

ManifestPresentAlways(f, root) == TRUE

\* package_path.is_file()
ManifestPresent(f, root) == is_file(f, JoinPath(root, PACKAGE_JSON))

\* str::replace("/", "-")
Flatten(name) == [i \in 1..Len(name) |-> IF name[i] = SLASH THEN "-" ELSE name[i]]

\* the copy of a package's lock file in the audit directory
LockCopy(name) == JoinPath(audit_dir, Flatten(name) \o LOCK_SUFFIX)

\* clean_packages' loop over the list it discovered
RECURSIVE CleanEach(_, _, _)
CleanEach(f, v, gone) ==
    IF v = <<>> THEN [ok |-> TRUE, fs |-> f, gone |-> gone]
    ELSE LET d == PathStr(Head(v).dir)
             r1 == safer_remove_dir(f, JoinPath(d, NODE_MODULES))
             r2 == safer_remove_file(r1.fs, JoinPath(d, PACKAGE_LOCK_JSON))
         IN  IF r1.res = "PathNotSafeToDelete"
             THEN [ok |-> FALSE, fs |-> f, gone |-> gone]
             ELSE IF r2.res = "PathNotSafeToDelete"
             THEN [ok |-> FALSE, fs |-> r1.fs, gone |-> gone \cup r1.gone]
             ELSE CleanEach(r2.fs, Tail(v), gone \cup r1.gone)

\* clean_packages: the results it may give, one per order of the walk
clean_packages(f, root) ==
    {CleanEach(f, v, {}) : v \in list_package_dirs(f, root)}

InstallNeverAborts(result) == FALSE

\* cmd_install: spawn().expect(..) and wait().expect(..) panic when the process
\* cannot be started or waited for; the exit status wait() returns is dropped
InstallAborts(result) == result = "spawn_failed"

\* what a finished "npm install" leaves in the package directory
NpmInstallEffect(f, d, result) ==
    IF result = "exit_0"
    THEN [dirs |-> f.dirs \cup {Append(d, NODE_MODULES)},
          files |-> f.files \cup {Append(d, PACKAGE_LOCK_JSON)}]
    ELSE f

\* what "npm audit" may print: a coloured line, or a line and a rule under it
AuditOutputs == {ESC90 \o <<"9">> \o ESC39, <<"0", " ", "m", NL, "[", "[">>}

\* cmd_audit: the captured output, cleaned
cmd_audit(stdout) == Sanitize(stdout)

\* list_audit_files: the entries under the directory whose name has a "."
\* ("**/*.*"), in the order of the walk
list_audit_files(f, dir_str) ==
    LET root == ResolveDir(f, dir_str)
        found == {[file |-> x, name |-> RelStr(Rel(root, x))] :
                     x \in {y \in f.files \cup f.dirs :
                               /\ IsPrefix(root, y) /\ y # root
                               /\ Contains(y[Len(y)], DOT)}}
    IN  Perms(found)

(***************************************************************************)
(* Spec: one run of main                                                   *)
(***************************************************************************)
V == <<"v">>
OUTSIDE == <<V \o AUDIT_SUFFIX>>
STALE == <<R, AUDIT_ROOT_DIR_NAME, DROP_UNKNOWN \o AUDIT_SUFFIX>>

\* the "__version__" strings tried: a version, one that climbs out of the
\* root ("../../v") and an absolute path ("/v")
Versions == {<<"7">>, DOTDOT \o <<SLASH>> \o DOTDOT \o <<SLASH>> \o V, <<SLASH>> \o V}

Manifests ==
    {[kind |-> "string", version |-> w] : w \in Versions}
    \cup {[kind |-> "other", version |-> <<>>], [kind |-> "malformed", version |-> <<>>]}

\* the trees a run may start from: the package a always has its manifest; the
\* root manifest, the lock files, the root's node_modules and the .audit of an
\* earlier run are there or not
RunFs(m, lr, la, nm, au) ==
    [dirs |-> {<<>>, ROOT, <<R, A>>, OUTSIDE}
              \cup (IF nm THEN {<<R, NODE_MODULES>>, <<R, NODE_MODULES, X>>} ELSE {})
              \cup (IF au THEN {<<R, AUDIT_ROOT_DIR_NAME>>, STALE} ELSE {}),
     files |-> {<<R, A, PACKAGE_JSON>>, Append(OUTSIDE, AUDIT_TXT)}
              \cup (IF m THEN {<<R, PACKAGE_JSON>>} ELSE {})
              \cup (IF lr THEN {<<R, PACKAGE_LOCK_JSON>>} ELSE {})
              \cup (IF la THEN {<<R, A, PACKAGE_LOCK_JSON>>} ELSE {})
              \cup (IF nm THEN {<<R, NODE_MODULES, X, PACKAGE_JSON>>} ELSE {})
              \cup (IF au THEN {Append(STALE, AUDIT_TXT)} ELSE {})]

Init ==
    /\ pc = "start"
    /\ \E m, lr, la, nm, au \in BOOLEAN :
        /\ fs = RunFs(m, lr, la, nm, au)
        /\ \E c, i, a \in BOOLEAN :
           \E mf \in IF m THEN Manifests ELSE {[kind |-> "none", version |-> <<>>]} :
               cfg = [doClean |-> c, doInstall |-> i, doAudit |-> a, manifest |-> mf]
    /\ preFs = fs
    /\ dirs = <<>> /\ idx = 0 /\ report = NoReport
    /\ tar = NoTar /\ gz = NoGz /\ removed = {} /\ spawned = <<>>
    /\ pending = <<>> /\ outcome = "running"
    /\ call = NoCall /\ text = NoText

Panic(why) ==
    /\ pc' = "done"
    /\ outcome' = why

\* main: the check of the path (must contain package.json)
Validate ==
    /\ pc = "start"
    /\ IF ManifestPresent(fs, root_str)
       THEN pc' = "drop_name" /\ UNCHANGED outcome
       ELSE pc' = "done" /\ outcome' = "no_manifest"
    /\ UNCHANGED <<fs, preFs, cfg, dirs, idx, report, tar, gz, removed, spawned, pending,
                   call, text>>

\* get_drop_name(&root).unwrap()
GetDropName ==
    /\ pc = "drop_name"
    /\ IF is_file(fs, JoinPath(root_str, PACKAGE_JSON)) /\ cfg.manifest.kind \in {"string", "other"}
       THEN pc' = "prepare" /\ UNCHANGED outcome
       ELSE Panic("panic_drop_name")
    /\ UNCHANGED <<fs, preFs, cfg, dirs, idx, report, tar, gz, removed, spawned, pending,
                   call, text>>

\* main: clean the audit dir
PrepareAuditDir ==
    /\ pc = "prepare"
    /\ IF cfg.doAudit
       THEN LET r == safer_remove_dir(fs, audit_dir)
            IN  IF r.res = "PathNotSafeToDelete"
                THEN Panic("panic_remove_audit_dir") /\ UNCHANGED <<fs, removed>>
                ELSE /\ fs' = create_dir_all(r.fs, audit_dir)
                     /\ removed' = removed \cup {[phase |-> "prepare", path |-> g] : g \in r.gone}
                     /\ pc' = "list" /\ UNCHANGED outcome
       ELSE pc' = "list" /\ UNCHANGED <<fs, removed, outcome>>
    /\ UNCHANGED <<preFs, cfg, dirs, idx, report, tar, gz, spawned, pending, call, text>>

\* main: list of package.json directories
ListPackageDirs ==
    /\ pc = "list"
    /\ dirs' \in list_package_dirs(fs, root_str)
    /\ pc' = "clean"
    /\ UNCHANGED <<fs, preFs, cfg, idx, report, tar, gz, removed, spawned, pending, outcome,
                   call, text>>

\* main: clean packages
CleanPackages ==
    /\ pc = "clean"
    /\ IF cfg.doClean
       THEN \E r \in clean_packages(fs, root_str) :
                /\ fs' = r.fs
                /\ removed' = removed \cup {[phase |-> "clean", path |-> g] : g \in r.gone}
                /\ IF r.ok THEN pc' = "install" /\ UNCHANGED outcome
                   ELSE Panic("panic_clean")
       ELSE pc' = "install" /\ UNCHANGED <<fs, removed, outcome>>
    /\ idx' = 1
    /\ UNCHANGED <<preFs, cfg, dirs, report, tar, gz, spawned, pending, call, text>>

\* main: npm install, one package of the loop
Install ==
    /\ pc = "install" /\ cfg.doInstall /\ idx <= Len(dirs)
    /\ \E result \in {"exit_0", "exit_nonzero", "spawn_failed"} :
        /\ spawned' = Append(spawned, [cmd |-> "install", dir |-> dirs[idx].dir,
                                        result |-> result])
        /\ IF InstallAborts(result)
           THEN Panic("panic_install") /\ UNCHANGED <<fs, idx>>
           ELSE /\ fs' = NpmInstallEffect(fs, dirs[idx].dir, result)
                /\ idx' = idx + 1
                /\ UNCHANGED <<pc, outcome>>
    /\ UNCHANGED <<preFs, cfg, dirs, report, tar, gz, removed, pending, call, text>>

InstallDone ==
    /\ pc = "install" /\ (~cfg.doInstall \/ idx > Len(dirs))
    /\ IF cfg.doAudit
       THEN pc' = "audit" /\ UNCHANGED outcome
       ELSE pc' = "done" /\ outcome' = "finished"
    /\ idx' = 1
    /\ UNCHANGED <<fs, preFs, cfg, dirs, report, tar, gz, removed, spawned, pending, call,
                   text>>

\* main: audit, one package of the loop: cmd_audit, whatever the exit status,
\* then the section pushed
Audit ==
    /\ pc = "audit" /\ idx <= Len(dirs)
    /\ \E result \in {"exit_0", "exit_nonzero", "spawn_failed"}, stdout \in AuditOutputs :
        /\ spawned' = Append(spawned, [cmd |-> "audit", dir |-> dirs[idx].dir,
                                        result |-> result])
        /\ IF result = "spawn_failed"
           THEN Panic("panic_audit") /\ UNCHANGED <<report, idx>>
           ELSE /\ report' = [report EXCEPT !.sections =
                                  Append(@, [name |-> dirs[idx].name,
                                             out |-> cmd_audit(stdout)])]
                /\ idx' = idx + 1
                /\ UNCHANGED <<pc, outcome>>
    /\ UNCHANGED <<fs, preFs, cfg, dirs, tar, gz, removed, pending, call, text>>

\* main: write the audit file content; a failed write is printed, not fatal
WriteReport ==
    /\ pc = "audit" /\ idx > Len(dirs)
    /\ report' = [report EXCEPT !.footer = TRUE]
    /\ \E io_ok \in BOOLEAN :
         IF io_ok /\ ResolveFile(fs, audit_file).parent
         THEN fs' = [fs EXCEPT !.files = @ \cup {ResolveFile(fs, audit_file).path}]
         ELSE UNCHANGED fs
    /\ pc' = "copy"
    /\ idx' = 1
    /\ UNCHANGED <<preFs, cfg, dirs, tar, gz, removed, spawned, pending, outcome, call, text>>

\* main: copy the package-locks, one package of the loop
CopyLock ==
    /\ pc = "copy" /\ idx <= Len(dirs)
    /\ LET src == JoinPath(PathStr(dirs[idx].dir), PACKAGE_LOCK_JSON)
           dist == ResolveFile(fs, LockCopy(dirs[idx].name))
       IN  IF is_file(fs, src) /\ dist.parent
           THEN /\ fs' = [fs EXCEPT !.files = @ \cup {dist.path}]
                /\ idx' = idx + 1
                /\ UNCHANGED <<pc, outcome>>
           ELSE Panic("panic_copy") /\ UNCHANGED <<fs, idx>>
    /\ UNCHANGED <<preFs, cfg, dirs, report, tar, gz, removed, spawned, pending, call, text>>

\* main: create tar (File::create, Builder::new) and list the audit files
CreateTar ==
    /\ pc = "copy" /\ idx > Len(dirs)
    /\ LET t == ResolveFile(fs, tar_path)
       IN  IF t.parent /\ t.path \notin fs.dirs /\ is_dir(fs, audit_dir)
           THEN /\ fs' = [fs EXCEPT !.files = @ \cup {t.path}]
                /\ tar' = [created |-> TRUE, entries |-> <<>>, eof |-> FALSE]
                /\ pending' \in list_audit_files(fs', audit_dir)
                /\ pc' = "append" /\ UNCHANGED outcome
           ELSE Panic("panic_tar") /\ UNCHANGED <<fs, tar, pending>>
    /\ idx' = 1
    /\ UNCHANGED <<preFs, cfg, dirs, report, gz, removed, spawned, call, text>>

\* main: a.append_file(name, File::open(file)), one file of the loop
AppendFile ==
    /\ pc = "append" /\ idx <= Len(pending)
    /\ IF pending[idx].file \in fs.files \cup fs.dirs
       THEN /\ tar' = [tar EXCEPT !.entries =
                          Append(@, audit_name \o <<SLASH>> \o pending[idx].name)]
            /\ idx' = idx + 1
            /\ UNCHANGED <<pc, outcome>>
       ELSE Panic("panic_tar") /\ UNCHANGED <<tar, idx>>
    /\ UNCHANGED <<fs, preFs, cfg, dirs, report, gz, removed, spawned, pending, call, text>>

\* main: create gz: the tar file is read in full as it is now, encoded and
\* written; gz holds what the written file decodes to
Compress ==
    /\ pc = "append" /\ idx > Len(pending)
    /\ LET g == ResolveFile(fs, gz_path)
       IN  /\ gz' = [created |-> TRUE, entries |-> tar.entries, eof |-> tar.eof]
           /\ fs' = [fs EXCEPT !.files = @ \cup {g.path}]
    /\ pc' = "block_end"
    /\ UNCHANGED <<preFs, cfg, dirs, idx, report, tar, removed, spawned, pending, outcome,
                   call, text>>

\* main: the end of the block drops the tar Builder, whose Drop finishes the
\* archive: the end-of-archive marker is written to the tar file here
DropBuilder ==
    /\ pc = "block_end"
    /\ tar' = [tar EXCEPT !.eof = TRUE]
    /\ pc' = "done"
    /\ outcome' = "finished"
    /\ UNCHANGED <<fs, preFs, cfg, dirs, idx, report, gz, removed, spawned, pending, call,
                   text>>

Next ==
    \/ Validate
    \/ GetDropName
    \/ PrepareAuditDir
    \/ ListPackageDirs
    \/ CleanPackages
    \/ Install
    \/ InstallDone
    \/ Audit
    \/ WriteReport
    \/ CopyLock
    \/ CreateTar
    \/ AppendFile
    \/ Compress
    \/ DropBuilder

Spec == Init /\ [][Next]_vars

(***************************************************************************)
(* Properties of a run                                                     *)
(***************************************************************************)
\* C2: when the root holds no manifest file the run ends at Validate, whatever
\* the flags: nothing is created or deleted (no <root>/.audit), nothing is
\* discovered, no subprocess is started.
C2_NoManifestNoEffect ==
    (outcome # "idle" /\ ~is_file(preFs, JoinPath(root_str, PACKAGE_JSON))) =>
        /\ pc \in {"start", "done"}
        /\ pc = "done" => outcome = "no_manifest"
        /\ fs = preFs
        /\ dirs = <<>>
        /\ spawned = <<>>
        /\ removed = {}
        /\ ~tar.created /\ ~gz.created

\* C2 witness: a run with --clean, install and audit on, over a root without a
\* manifest but with a node_modules, has ended.
C2_Witness ==
    /\ pc = "done" /\ outcome = "no_manifest"
    /\ cfg.doClean /\ cfg.doInstall /\ cfg.doAudit
    /\ <<R, PACKAGE_JSON>> \notin preFs.files
    /\ <<R, NODE_MODULES>> \in fs.dirs
    /\ <<R, AUDIT_ROOT_DIR_NAME>> \notin fs.dirs

NothingAfter(i) == i = Len(spawned) /\ report = NoReport /\ ~tar.created /\ ~gz.created

\* C3 as stated: an install subprocess that exits with a non-zero status or
\* fails to launch is the last thing the run does: no later package is
\* installed, no audit is run, no archive is made.
C3_InstallFailureAborts ==
    \A i \in 1..Len(spawned) :
        (spawned[i].cmd = "install" /\ spawned[i].result \in {"exit_nonzero", "spawn_failed"})
            => NothingAfter(i)

\* C3 amended: an install subprocess that fails to launch (or cannot be waited
\* for) aborts the run at that package: no later package is installed, and
\* neither the Audit nor the Archive phase runs.  A non-zero exit status is
\* not looked at: the run does not abort at that package, and the install
\* phase aborts for no other reason than a failed launch.
C3_LaunchFailureAborts ==
    /\ \A i \in 1..Len(spawned) :
        (spawned[i].cmd = "install" /\ spawned[i].result = "spawn_failed")
            => (NothingAfter(i) /\ pc = "done" /\ outcome = "panic_install")
    /\ outcome = "panic_install" =>
        /\ spawned # <<>>
        /\ spawned[Len(spawned)] = [cmd |-> "install",
                                    dir |-> dirs[Len(spawned)].dir,
                                    result |-> "spawn_failed"]
    /\ (/\ spawned # <<>>
        /\ spawned[Len(spawned)].cmd = "install"
        /\ spawned[Len(spawned)].result = "exit_nonzero")
            => outcome \in {"running", "finished"}

\* C3 witness: the install of the root exited non-zero, the install of the
\* next package was started all the same and failed to launch, and the run
\* stopped there.
C3_Witness ==
    /\ Len(spawned) = 2
    /\ spawned[1] = [cmd |-> "install", dir |-> ROOT, result |-> "exit_nonzero"]
    /\ spawned[2] = [cmd |-> "install", dir |-> <<R, A>>, result |-> "spawn_failed"]
    /\ cfg.doAudit
    /\ pc = "done" /\ outcome = "panic_install"

\* C4: a discovered package without a lock file is skipped by the copy step:
\* the run does not abort there, the lock files that exist are copied, and the
\* archive is made.
C4_MissingLockSkipped ==
    /\ outcome # "panic_copy"
    /\ (pc = "done" /\ report.footer) =>
        /\ outcome = "finished"
        /\ gz.created
        /\ \A i \in 1..Len(dirs) :
            is_file(fs, JoinPath(PathStr(dirs[i].dir), PACKAGE_LOCK_JSON))
                => is_file(fs, LockCopy(dirs[i].name))

\* C5: the archive is started only once _audit.txt has been written into the
\* audit directory and the lock file of every discovered package copied.
C5_ArchiveAfterReport ==
    tar.created =>
        /\ is_file(fs, audit_file)
        /\ \A i \in 1..Len(dirs) : is_file(fs, LockCopy(dirs[i].name))

\* C9: the tar file is complete, end-of-archive marker included, when compress
\* reads it, so that at the end of the run the .tar.gz decompresses to the
\* bytes of the .tar.
C9_GzMatchesTar ==
    /\ gz.created => gz.eof
    /\ (pc = "done" /\ gz.created) =>
           (gz.entries = tar.entries /\ gz.eof = tar.eof)

\* C10: whatever the "__version__" string, every directory tree removed lies
\* inside the root: PrepareAuditDir removes a descendant of <root>/.audit, and
\* Clean removes the node_modules directory of a discovered package.
C10_RemovalsInsideRoot ==
    \A r \in removed :
        /\ IsPrefix(ROOT, r.path)
        /\ r.phase = "prepare" =>
            (IsPrefix(<<R, AUDIT_ROOT_DIR_NAME>>, r.path) /\ r.path # <<R, AUDIT_ROOT_DIR_NAME>>)
        /\ r.phase = "clean" =>
            \E i \in 1..Len(dirs) : r.path = Append(dirs[i].dir, NODE_MODULES)

====
